---- MODULE Spec2Model ----
(***************************************************************************)
(* A model of the scheduler utilities of scheduler/util.go: diffAllocs,    *)
(* taintedNodes, retryMax, tasksUpdated, inplaceUpdate, evictAndPlace and  *)
(* the task group materializers, and of the cpuset fixer of the docker     *)
(* driver (drivers/docker/reconcile_cpuset.go).  Each function is an       *)
(* operator computed as the code computes it, and each has a specification *)
(* of its own (SpecDiff, SpecTaint, SpecRetry, SpecInplace, SpecEvict,     *)
(* SpecMat) whose initial states draw the arguments and whose actions are  *)
(* the calls; the cpuset fixer is a set of threads (SpecFixer, and         *)
(* SpecFixerLive with the fairness of its scheduling).  The variables of   *)
(* the other components stay at their idle values.  Pointers to            *)
(* allocations are allocation IDs.                                         *)
(***************************************************************************)
EXTENDS Integers, Sequences, FiniteSets, TLC

VARIABLES
    max,        \* retryMax: the attempt limit
    cb,         \* retryMax: what the callback returns on its 1st, 2nd, ... call
    retry,      \* retryMax: the return record, NotCalled before the call
    limit,      \* evictAndPlace: the shared *limit
    plan,       \* the plan sink: staged updates and appended allocations
    result,     \* the diffResult (place, update, migrate, stop, ignore)
    evict,      \* evictAndPlace: the last call (arguments, pre-state, return)
    job,        \* the job being scheduled
    required,   \* the desired map: name -> task group
    allocs,     \* the existing allocations
    taintArg,   \* the taint map handed to diffAllocs
    state,      \* the state snapshot: node id -> what NodeByID gives
    tainted,    \* taintedNodes: the return record, NotCalled before the call
    pc,         \* where the reconciliation pass is
    updates,    \* inplaceUpdate: the list of update candidates handed in
    stack,      \* inplaceUpdate: what Select gives, per allocation
    inplace,    \* inplaceUpdate: the return record, NotCalled before the call
    matJob,     \* materializers: the job
    matNodes,   \* materializers: the nodes of the system job
    mat,        \* materializers: the return record of each
    useV2,      \* cgutil.UseV2
    once,       \* cpusetFixer.once: fresh, running, done
    starter,    \* where each thread calling Start is
    lateStart,  \* a call of Start returned after a loop had exited
    cancelled,  \* cf.ctx is cancelled
    loop,       \* the goroutines running cf.loop: position, timer, scan
    lock,       \* d.tasks.lock: the readers and whether a writer holds it
    tracked,    \* d.tasks.store, as coordinates
    cgroup      \* the cpuset.cpus file of each cgroup

vars ==
    <<max, cb, retry, limit, plan, result, evict, job, required, allocs,
      taintArg, state, tainted, pc, updates, stack, inplace, matJob, matNodes,
      mat, useV2, once, starter, lateStart, cancelled, loop, lock, tracked,
      cgroup>>

scheduleVars ==
    <<max, cb, retry, limit, plan, result, evict, job, required, allocs,
      taintArg, state, tainted, pc, updates, stack, inplace>>

matVars == <<matJob, matNodes, mat>>

fixerVars ==
    <<useV2, once, starter, lateStart, cancelled, loop, lock, tracked, cgroup>>

retryVars == <<max, cb, retry>>

evictVars == <<limit, evict>>

diffVars == <<job, required, allocs, taintArg, state, tainted, pc>>

inplaceVars == <<updates, stack, inplace>>

\* A nil pointer, a nil error, an absent value.
Nil == "nil"

\* The value of a return record before the function was called.
NotCalled == [called |-> FALSE]

(***************************************************************************)
(* Bounds of the model.                                                    *)
(***************************************************************************)
\* retryMax: the largest limit, and the number of callback outcomes drawn.
MaxAttempts == 3

\* evictAndPlace: the longest list of one call.
MaxEvict == 2

\* evictAndPlace: the largest initial budget.
MaxLimit == 3

\* evictAndPlace: the number of calls that share one budget.
MaxCalls == 2

\* diffAllocs, taintedNodes: the largest number of existing allocations.
MaxAllocs == 3

\* inplaceUpdate: the largest number of update candidates.
MaxUpdates == 2

(***************************************************************************)
(* retryMax (scheduler/util.go:191-207)                                    *)
(***************************************************************************)
\* The errors a callback may return.
CbErrors == {"e1", "e2"}

\* What one invocation of the callback returns: (done, err).
CbResults == [done : BOOLEAN, err : {Nil} \cup CbErrors]

\* structs.EvalStatusFailed
EvalStatusFailed == "failed"

\* &SetStatusError{Err: "maximum attempts reached", EvalStatus: failed}
SetStatusError ==
    [kind |-> "SetStatusError", err |-> "maximum attempts reached",
     EvalStatus |-> EvalStatusFailed]

\* The loop of retryMax: attempts counts the (false, nil) results, calls the
\* invocations of cb.
RECURSIVE retryLoop(_, _, _, _)
retryLoop(m, script, attempts, calls) ==
    IF attempts < m
    THEN LET r == script[calls + 1] IN
         IF r.err # Nil
         THEN [called |-> TRUE, kind |-> "error", err |-> r.err,
               EvalStatus |-> Nil, calls |-> calls + 1]
         ELSE IF r.done
         THEN [called |-> TRUE, kind |-> "nil", err |-> Nil,
               EvalStatus |-> Nil, calls |-> calls + 1]
         ELSE retryLoop(m, script, attempts + 1, calls + 1)
    ELSE [called |-> TRUE, kind |-> SetStatusError.kind,
          err |-> SetStatusError.err,
          EvalStatus |-> SetStatusError.EvalStatus, calls |-> calls]

\* A plausible slip: done is tested before err, so (true, err) is a success.
RECURSIVE retryLoopDoneFirst(_, _, _, _)
retryLoopDoneFirst(m, script, attempts, calls) ==
    IF attempts < m
    THEN LET r == script[calls + 1] IN
         IF r.done
         THEN [called |-> TRUE, kind |-> "nil", err |-> Nil,
               EvalStatus |-> Nil, calls |-> calls + 1]
         ELSE IF r.err # Nil
         THEN [called |-> TRUE, kind |-> "error", err |-> r.err,
               EvalStatus |-> Nil, calls |-> calls + 1]
         ELSE retryLoopDoneFirst(m, script, attempts + 1, calls + 1)
    ELSE [called |-> TRUE, kind |-> SetStatusError.kind,
          err |-> SetStatusError.err,
          EvalStatus |-> SetStatusError.EvalStatus, calls |-> calls]

retryMaxDoneFirst(m, script) == retryLoopDoneFirst(m, script, 0, 0)

retryMax(m, script) == retryLoop(m, script, 0, 0)

RetryIdle ==
    /\ max = 0
    /\ cb = <<>>
    /\ retry = NotCalled

InitRetry ==
    /\ max \in -1 .. MaxAttempts
    /\ cb \in [1 .. MaxAttempts -> CbResults]
    /\ retry = NotCalled

\* One call retryMax(max, cb).
RetryMax ==
    /\ ~retry.called
    /\ retry' = retryMax(max, cb)
    /\ UNCHANGED <<max, cb>>

(***************************************************************************)
(* The plan sink (structs.Plan), as the scheduler uses it.                 *)
(***************************************************************************)
\* structs.AllocDesiredStatusStop, structs.AllocDesiredStatusRun,
\* structs.AllocClientStatusPending
AllocDesiredStatusStop == "stop"

AllocDesiredStatusRun == "run"

AllocClientStatusPending == "pending"

\* The nil *structs.Allocation; an allocation is referred to by its ID.
NilAlloc == 0

EmptyPlan == [NodeUpdate |-> <<>>, NodeAllocation |-> <<>>]

\* Plan.AppendUpdate(alloc, status, desc): stage an update of alloc.
AppendUpdate(p, alloc, status, desc) ==
    [p EXCEPT !.NodeUpdate =
        Append(@, [Alloc |-> alloc, DesiredStatus |-> status,
                   DesiredDescription |-> desc])]

\* Plan.PopUpdate(alloc): retract the update staged last, if it is alloc's.
PopUpdate(p, alloc) ==
    LET n == Len(p.NodeUpdate) IN
    IF n > 0 /\ p.NodeUpdate[n].Alloc = alloc
    THEN [p EXCEPT !.NodeUpdate = SubSeq(@, 1, n - 1)]
    ELSE p

\* Plan.AppendAlloc(alloc): add a new allocation record.
AppendAlloc(p, alloc) ==
    [p EXCEPT !.NodeAllocation = Append(@, alloc)]

(***************************************************************************)
(* diffResult and allocTuple (scheduler/util.go:18-67)                     *)
(***************************************************************************)
allocTuple(name, tg, alloc) ==
    [Name |-> name, TaskGroup |-> tg, Alloc |-> alloc]

\* &diffResult{}
EmptyDiff ==
    [place |-> <<>>, update |-> <<>>, migrate |-> <<>>, stop |-> <<>>,
     ignore |-> <<>>]

Buckets == {"place", "update", "migrate", "stop", "ignore"}

\* All sequences over S of length at most n.
SeqsUpTo(S, n) == UNION {[1 .. k -> S] : k \in 0 .. n}

Min(a, b) == IF a <= b THEN a ELSE b

(***************************************************************************)
(* evictAndPlace (scheduler/util.go:375-388)                               *)
(***************************************************************************)
\* The stop reasons the schedulers pass.
allocUpdating == "alloc is being updated due to job update"

allocMigrating == "alloc is being migrated"

EvictDescs == {allocUpdating, allocMigrating}

\* The tuples a list handed to evictAndPlace is made of.
EvictTuples ==
    {allocTuple("web.api[0]", "api", 1), allocTuple("web.api[1]", "api", 2)}

\* for i := 0; i < n && i < *limit; i++ { AppendUpdate; append to place }
RECURSIVE evictLoop(_, _, _, _, _, _)
evictLoop(p, place, as, desc, lim, i) ==
    IF i < Len(as) /\ i < lim
    THEN evictLoop(AppendUpdate(p, as[i + 1].Alloc, AllocDesiredStatusStop, desc),
                   Append(place, as[i + 1]), as, desc, lim, i + 1)
    ELSE [plan |-> p, place |-> place]

\* A plausible slip: n < *limit, so a list that fits exactly is "exhausted".
evictAndPlaceStrict(p, diff, as, desc, lim) ==
    LET n == Len(as)
        done == evictLoop(p, diff.place, as, desc, lim, 0)
    IN  [plan |-> done.plan,
         diff |-> [diff EXCEPT !.place = done.place],
         limit |-> IF n < lim THEN lim - n ELSE 0,
         ret |-> ~(n < lim)]

\* A plausible slip: "return true" without "*limit = 0".
evictAndPlaceKeepLimit(p, diff, as, desc, lim) ==
    LET n == Len(as)
        done == evictLoop(p, diff.place, as, desc, lim, 0)
    IN  [plan |-> done.plan,
         diff |-> [diff EXCEPT !.place = done.place],
         limit |-> IF n <= lim THEN lim - n ELSE lim,
         ret |-> ~(n <= lim)]

\* evictAndPlace(ctx, diff, allocs, desc, limit): the plan, the diffResult and
\* the limit after the call, and the value returned.
evictAndPlace(p, diff, as, desc, lim) ==
    LET n == Len(as)
        done == evictLoop(p, diff.place, as, desc, lim, 0)
    IN  [plan |-> done.plan,
         diff |-> [diff EXCEPT !.place = done.place],
         limit |-> IF n <= lim THEN lim - n ELSE 0,
         ret |-> ~(n <= lim)]

EvictIdle ==
    /\ limit = 0
    /\ plan = EmptyPlan
    /\ result = EmptyDiff
    /\ evict = [calls |-> 0]

\* The pass starts with a budget that is not negative; evict also keeps that
\* budget and whether a call has returned true.
InitEvict ==
    /\ limit \in 0 .. MaxLimit
    /\ plan = EmptyPlan
    /\ result = EmptyDiff
    /\ evict = [calls |-> 0, budget0 |-> limit, exhausted |-> FALSE]

\* One call evictAndPlace(ctx, result, as, desc, &limit); evict records the
\* arguments, the state before the call and the value returned.
EvictAndPlace ==
    /\ evict.calls < MaxCalls
    /\ \E as \in SeqsUpTo(EvictTuples, MaxEvict), desc \in EvictDescs :
          LET r == evictAndPlace(plan, result, as, desc, limit) IN
          /\ plan' = r.plan
          /\ result' = r.diff
          /\ limit' = r.limit
          /\ evict' = [calls |-> evict.calls + 1, allocs |-> as, desc |-> desc,
                       limit0 |-> limit, plan0 |-> plan, diff0 |-> result,
                       ret |-> r.ret, budget0 |-> evict.budget0,
                       exhausted0 |-> evict.exhausted,
                       exhausted |-> evict.exhausted \/ r.ret]

(***************************************************************************)
(* diffAllocs (scheduler/util.go:80-151)                                   *)
(***************************************************************************)
Names == {"web.api[0]", "web.api[1]"}

TaskGroups == {"api", "db"}

NodeIDs == {"n1", "n2"}

ModifyIndexes == {1, 2}

\* A Go map with keys in K and values in V: a function on a subset of K.
Maps(K, V) == UNION {[S -> V] : S \in SUBSET K}

EmptyMap == [k \in {} |-> FALSE]

\* All orders in which a range loop may visit the key set S.
Orders(S) ==
    {o \in [1 .. Cardinality(S) -> S] : \A k \in S : \E i \in DOMAIN o : o[i] = k}

\* The i-th existing allocation; its ID is what a pointer to it is.
Allocation(i, name, node, mi) ==
    [ID |-> i, Name |-> name, NodeID |-> node, Job |-> [ModifyIndex |-> mi]]

\* The lists of existing allocations whose recorded job modify-index is in mis.
AllocLists(mis) ==
    {[i \in DOMAIN l |-> Allocation(i, l[i][1], l[i][2], l[i][3])] :
        l \in SeqsUpTo(Names \X NodeIDs \X mis, MaxAllocs)}

\* taintedNodes[exist.NodeID]: a missing key reads as false.
isTainted(tn, exist) ==
    IF exist.NodeID \in DOMAIN tn THEN tn[exist.NodeID] ELSE FALSE

\* A plausible slip: only an older recorded version counts as an update.
needsUpdateOlder(j, exist) == exist.Job.ModifyIndex < j.ModifyIndex

\* job.ModifyIndex != exist.Job.ModifyIndex
needsUpdate(j, exist) == j.ModifyIndex # exist.Job.ModifyIndex

\* A plausible slip: the job version is tested before the taint.
RECURSIVE scanExistingUpdateFirst(_, _, _, _, _, _)
scanExistingUpdateFirst(j, tn, req, as, i, res) ==
    IF i > Len(as) THEN res
    ELSE LET exist == as[i]
             name == exist.Name
             ok == name \in DOMAIN req
             t == allocTuple(name, IF ok THEN req[name] ELSE Nil, exist.ID)
             next == IF ~ok THEN [res EXCEPT !.stop = Append(@, t)]
                     ELSE IF needsUpdate(j, exist)
                     THEN [res EXCEPT !.update = Append(@, t)]
                     ELSE IF isTainted(tn, exist)
                     THEN [res EXCEPT !.migrate = Append(@, t)]
                     ELSE [res EXCEPT !.ignore = Append(@, t)]
         IN  scanExistingUpdateFirst(j, tn, req, as, i + 1, next)

\* A plausible slip: the taint is tested before the desired map.
RECURSIVE scanExistingTaintFirst(_, _, _, _, _, _)
scanExistingTaintFirst(j, tn, req, as, i, res) ==
    IF i > Len(as) THEN res
    ELSE LET exist == as[i]
             name == exist.Name
             ok == name \in DOMAIN req
             t == allocTuple(name, IF ok THEN req[name] ELSE Nil, exist.ID)
             next == IF isTainted(tn, exist)
                     THEN [res EXCEPT !.migrate = Append(@, t)]
                     ELSE IF ~ok THEN [res EXCEPT !.stop = Append(@, t)]
                     ELSE IF needsUpdate(j, exist)
                     THEN [res EXCEPT !.update = Append(@, t)]
                     ELSE [res EXCEPT !.ignore = Append(@, t)]
         IN  scanExistingTaintFirst(j, tn, req, as, i + 1, next)

\* "Scan the existing updates": allocations i, i+1, ... of as, each appended
\* to one bucket of res.
RECURSIVE scanExisting(_, _, _, _, _, _)
scanExisting(j, tn, req, as, i, res) ==
    IF i > Len(as) THEN res
    ELSE LET exist == as[i]
             name == exist.Name
             ok == name \in DOMAIN req
             t == allocTuple(name, IF ok THEN req[name] ELSE Nil, exist.ID)
             next == IF ~ok THEN [res EXCEPT !.stop = Append(@, t)]
                     ELSE IF isTainted(tn, exist)
                     THEN [res EXCEPT !.migrate = Append(@, t)]
                     ELSE IF needsUpdate(j, exist)
                     THEN [res EXCEPT !.update = Append(@, t)]
                     ELSE [res EXCEPT !.ignore = Append(@, t)]
         IN  scanExisting(j, tn, req, as, i + 1, next)

\* A plausible slip: every required name is placed, existing or not.
RECURSIVE scanRequiredAll(_, _, _, _, _)
scanRequiredAll(req, order, existing, i, res) ==
    IF i > Len(order) THEN res
    ELSE scanRequiredAll(req, order, existing, i + 1,
             [res EXCEPT !.place =
                 Append(@, allocTuple(order[i], req[order[i]], NilAlloc))])

\* "Scan the required groups", in the order the range loop visits the map.
RECURSIVE scanRequired(_, _, _, _, _)
scanRequired(req, order, existing, i, res) ==
    IF i > Len(order) THEN res
    ELSE LET name == order[i]
             next == IF name \notin existing
                     THEN [res EXCEPT !.place =
                              Append(@, allocTuple(name, req[name], NilAlloc))]
                     ELSE res
         IN  scanRequired(req, order, existing, i + 1, next)

\* diffAllocs(job, taintedNodes, required, allocs); order is the order in
\* which the range loop visits the required map.
diffAllocs(j, tn, req, as, order) ==
    LET existing == {as[i].Name : i \in DOMAIN as}
    IN  scanRequired(req, order, existing, 1,
                     scanExisting(j, tn, req, as, 1, EmptyDiff))

(***************************************************************************)
(* taintedNodes (scheduler/util.go:211-232)                                *)
(***************************************************************************)
NodeStatusReady == "ready"

NodeStatusDown == "down"

\* What State.NodeByID(id) gives: a node, no node, or an error.
NodeEntries ==
    {[kind |-> "absent"], [kind |-> "error"]}
        \cup [kind : {"node"}, Status : {NodeStatusReady, NodeStatusDown},
              Drain : BOOLEAN]

\* structs.ShouldDrainNode(status)
ShouldDrainNode(status) == status = NodeStatusDown

\* The loop of taintedNodes over allocations i, i+1, ...; lookups lists the
\* node ids handed to NodeByID.
RECURSIVE taintedLoop(_, _, _, _, _)
taintedLoop(st, as, i, out, lookups) ==
    IF i > Len(as)
    THEN [called |-> TRUE, out |-> out, isNil |-> FALSE, err |-> Nil,
          lookups |-> lookups]
    ELSE LET id == as[i].NodeID IN
         IF id \in DOMAIN out
         THEN taintedLoop(st, as, i + 1, out, lookups)
         ELSE LET node == st[id]
                  looked == Append(lookups, id)
              IN  IF node.kind = "error"
                  THEN [called |-> TRUE, out |-> EmptyMap, isNil |-> TRUE,
                        err |-> "lookup failed", lookups |-> looked]
                  ELSE IF node.kind = "absent"
                  THEN taintedLoop(st, as, i + 1, (id :> TRUE) @@ out, looked)
                  ELSE taintedLoop(st, as, i + 1,
                           (id :> (ShouldDrainNode(node.Status) \/ node.Drain))
                               @@ out, looked)

\* A plausible slip: a node the state does not contain is not marked tainted.
taintedNodesVanishedClean(st, as) ==
    LET r == taintedLoop(st, as, 1, EmptyMap, <<>>)
    IN  [r EXCEPT !.out = [id \in DOMAIN r.out |->
                              st[id].kind # "absent" /\ r.out[id]]]

\* A plausible slip: "return out, err", the nodes classified so far.
taintedNodesPartial(st, as) ==
    LET r == taintedLoop(st, as, 1, EmptyMap, <<>>)
    IN  IF r.err = Nil THEN r
        ELSE [r EXCEPT !.isNil = FALSE,
                       !.out = [id \in {r.lookups[k] : k \in 1 .. Len(r.lookups) - 1}
                                   |-> st[id].kind = "absent"]]

taintedNodes(st, as) == taintedLoop(st, as, 1, EmptyMap, <<>>)

DiffIdle ==
    /\ job = [ModifyIndex |-> 0]
    /\ required = EmptyMap
    /\ allocs = <<>>
    /\ taintArg = EmptyMap
    /\ state = EmptyMap
    /\ tainted = NotCalled
    /\ pc = "idle"

\* Any job, desired map, existing allocations and taint map.
InitDiff ==
    /\ job \in [ModifyIndex : ModifyIndexes]
    /\ required \in Maps(Names, TaskGroups)
    /\ allocs \in AllocLists(ModifyIndexes)
    /\ taintArg \in Maps(NodeIDs, BOOLEAN)
    /\ state = EmptyMap
    /\ tainted = NotCalled
    /\ result = EmptyDiff
    /\ pc = "start"

\* result = diffAllocs(job, taintArg, required, allocs)
DiffAllocs ==
    /\ pc = "start"
    /\ \E order \in Orders(DOMAIN required) :
          result' = diffAllocs(job, taintArg, required, allocs, order)
    /\ pc' = "diffed"
    /\ UNCHANGED <<job, required, allocs, taintArg, state, tainted>>

\* Any job, desired map, existing allocations and state snapshot.
InitTaint ==
    /\ job \in [ModifyIndex : ModifyIndexes]
    /\ required \in Maps(Names, TaskGroups)
    /\ allocs \in AllocLists({1})
    /\ state \in [NodeIDs -> NodeEntries]
    /\ taintArg = EmptyMap
    /\ tainted = NotCalled
    /\ result = EmptyDiff
    /\ pc = "start"

\* tainted, err := taintedNodes(state, allocs); an error ends the pass.
TaintedNodes ==
    /\ pc = "start"
    /\ tainted' = taintedNodes(state, allocs)
    /\ pc' = IF tainted'.err = Nil THEN "tainted" ELSE "failed"
    /\ UNCHANGED <<job, required, allocs, taintArg, state, result>>

\* diff := diffAllocs(job, tainted, required, allocs)
DiffTainted ==
    /\ pc = "tainted"
    /\ taintArg' = tainted.out
    /\ \E order \in Orders(DOMAIN required) :
          result' = diffAllocs(job, tainted.out, required, allocs, order)
    /\ pc' = "diffed"
    /\ UNCHANGED <<job, required, allocs, state, tainted>>

(***************************************************************************)
(* tasksUpdated (scheduler/util.go:245-277)                                *)
(***************************************************************************)
Task(name, driver, config, cpu, networks) ==
    [Name |-> name, Driver |-> driver, Config |-> config,
     Resources |-> [CPU |-> cpu, Networks |-> networks]]

\* A network ask with the given dynamic ports.
Network(ports) == [DynamicPorts |-> ports]

HasTask(tg, name) == \E i \in DOMAIN tg.Tasks : tg.Tasks[i].Name = name

\* TaskGroup.LookupTask(name): the first task of that name.
LookupTask(tg, name) ==
    tg.Tasks[CHOOSE i \in DOMAIN tg.Tasks :
                 /\ tg.Tasks[i].Name = name
                 /\ \A k \in 1 .. i - 1 : tg.Tasks[k].Name # name]

\* Job.LookupTaskGroup(name): the first task group of that name.
LookupTaskGroup(j, name) ==
    j.TaskGroups[CHOOSE i \in DOMAIN j.TaskGroups :
                     /\ j.TaskGroups[i].Name = name
                     /\ \A k \in 1 .. i - 1 : j.TaskGroups[k].Name # name]

\* tasksUpdated(a, b): the tasks, their drivers, their config or the number
\* of their dynamic ports differ.
tasksUpdated(a, b) ==
    \/ Len(a.Tasks) # Len(b.Tasks)
    \/ \E i \in DOMAIN a.Tasks :
          LET at == a.Tasks[i] IN
          \/ ~HasTask(b, at.Name)
          \/ LET bt == LookupTask(b, at.Name)
                 an == at.Resources.Networks
                 bn == bt.Resources.Networks
             IN  \/ at.Driver # bt.Driver
                 \/ at.Config # bt.Config
                 \/ Len(an) # Len(bn)
                 \/ \E idx \in DOMAIN an :
                       Len(an[idx].DynamicPorts) # Len(bn[idx].DynamicPorts)

(***************************************************************************)
(* inplaceUpdate (scheduler/util.go:292-370)                               *)
(***************************************************************************)
allocInPlace == "alloc updating in-place"

\* The evaluation and what ctx.Metrics() gives.
EvalID == "eval-2"

CtxMetrics == "metrics-2"

\* The task group "api" of the current job.
NewTG ==
    [Name |-> "api",
     Tasks |-> <<Task("web", "docker", "image:1", 200, <<Network(<<"http">>)>>)>>]

\* The task group "api" of the job an existing allocation was placed for: the
\* same but for the cpu, or with another driver, config, number of networks,
\* number of dynamic ports, number of tasks or task name.
OldTGs ==
    {[Name |-> "api", Tasks |-> ts] : ts \in
        {<<Task("web", "docker", "image:1", 100, <<Network(<<"http">>)>>)>>,
         <<Task("web", "exec", "image:1", 100, <<Network(<<"http">>)>>)>>,
         <<Task("web", "docker", "image:0", 100, <<Network(<<"http">>)>>)>>,
         <<Task("web", "docker", "image:1", 100, <<>>)>>,
         <<Task("web", "docker", "image:1", 100,
                <<Network(<<"http", "admin">>)>>)>>,
         <<Task("web", "docker", "image:1", 100, <<Network(<<"http">>)>>),
           Task("log", "docker", "image:1", 100, <<>>)>>,
         <<Task("www", "docker", "image:1", 100, <<Network(<<"http">>)>>)>>}}

\* The state snapshot: n1 is there, n2 is gone, the lookup of n3 fails.
InplaceNodeIDs == {"n1", "n2", "n3"}

InplaceState ==
    [id \in InplaceNodeIDs |->
        IF id = "n1"
        THEN [kind |-> "node", Status |-> NodeStatusReady, Drain |-> FALSE]
        ELSE IF id = "n2" THEN [kind |-> "absent"] ELSE [kind |-> "error"]]

\* What Select returns: no option, or per-task resources and their total.
Infeasible == [feasible |-> FALSE]

Options(tg) ==
    {Infeasible,
     [feasible |-> TRUE,
      TaskResources |->
          [t \in {tg.Tasks[i].Name : i \in DOMAIN tg.Tasks} |->
              [CPU |-> 200, Networks |-> "offered"]],
      size |-> [CPU |-> 200]]}

\* The i-th existing allocation, placed on node for the job version old.
RunningAlloc(i, node, old) ==
    [ID |-> i, Name |-> "web.api[" \o ToString(i - 1) \o "]", NodeID |-> node,
     EvalID |-> "eval-1",
     Job |-> [ModifyIndex |-> 1, TaskGroups |-> <<old>>],
     Resources |-> [CPU |-> 100],
     TaskResources |->
         [t \in {old.Tasks[k].Name : k \in DOMAIN old.Tasks} |->
             [CPU |-> 100, Networks |-> "bound"]],
     Metrics |-> "metrics-1",
     DesiredStatus |-> AllocDesiredStatusRun, ClientStatus |-> "running"]

\* Plan sink and state calls, as inplaceUpdate's trace records them.
Call(op, arg) == [op |-> op, arg |-> arg]

\* "Restore the network offers from the existing allocation": the option's
\* per-task resources with Networks overwritten by the allocation's.
restoreNetworksNot(option, alloc) == option.TaskResources

restoreNetworks(option, alloc) ==
    [task \in DOMAIN option.TaskResources |->
        [option.TaskResources[task] EXCEPT
            !.Networks = alloc.TaskResources[task].Networks]]

\* A plausible slip: n-- without moving the last candidate into the gap.
removeResolvedNoSwap(us, i, n) == us

\* updates[i] = updates[n-1]
removeResolved(us, i, n) == [us EXCEPT ![i] = us[n]]

\* A plausible slip: a failed lookup ends the loop (break for continue).
lookupFailedBreak(s, id) ==
    [s EXCEPT !.i = s.n + 1,
              !.trace = Append(@, Call("NodeByID", id)),
              !.logs = Append(@, [level |-> "ERR", node |-> id])]

\* NodeByID failed: log it and continue with the next candidate.
lookupFailed(s, id) ==
    [s EXCEPT !.i = @ + 1,
              !.trace = Append(@, Call("NodeByID", id)),
              !.logs = Append(@, [level |-> "ERR", node |-> id])]

\* A plausible slip: the stop is retracted only when Select gave no option.
retractStagedIfInfeasible(c, option, alloc) ==
    IF option.feasible
    THEN c
    ELSE [plan |-> PopUpdate(c.plan, alloc),
          trace |-> Append(c.trace, Call("PopUpdate", alloc))]

\* "Pop the allocation": ctx.Plan().PopUpdate(update.Alloc), whatever option
\* Select returned; c holds the plan and the trace of calls so far.
retractStaged(c, option, alloc) ==
    [plan |-> PopUpdate(c.plan, alloc),
     trace |-> Append(c.trace, Call("PopUpdate", alloc))]

\* The allocation inplaceUpdate builds from the existing one.
updatedAlloc(alloc, j, option) ==
    [alloc EXCEPT !.EvalID = EvalID,
                  !.Job = j,
                  !.Resources = option.size,
                  !.TaskResources = restoreNetworks(option, alloc),
                  !.Metrics = CtxMetrics,
                  !.DesiredStatus = AllocDesiredStatusRun,
                  !.ClientStatus = AllocClientStatusPending]

\* A plausible slip: newAlloc := update.Alloc, so the fields are written
\* through the pointer into the existing allocation.
aliasAndUpdate(heap, id, j, option) ==
    LET new == updatedAlloc(heap[id], j, option)
    IN  [heap |-> [heap EXCEPT ![id] = new], alloc |-> new]

\* "Create a shallow copy" and "Update the allocation": the allocations as
\* they are afterwards, and the new one.
copyAndUpdate(heap, id, j, option) ==
    [heap |-> heap, alloc |-> updatedAlloc(heap[id], j, option)]

\* The loop of inplaceUpdate; s holds updates (the slice's array), i (from 1),
\* n, inplace, the plan, the allocations, the trace of calls and the log; as
\* and s.plan0 are the allocations and the plan at the call.
RECURSIVE inplaceLoop(_, _, _, _, _)
inplaceLoop(st, sel, j, as, s) ==
    IF s.i > s.n
    THEN [called |-> TRUE,
          residual |-> SubSeq(s.updates, 1, s.n),
          updates |-> s.updates,
          inplace |-> s.inplace,
          plan |-> s.plan,
          plan0 |-> s.plan0,
          allocs |-> s.allocs,
          allocs0 |-> as,
          trace |-> s.trace,
          logs |-> IF Len(s.updates) > 0
                   THEN Append(s.logs, [level |-> "DEBUG", inplace |-> s.inplace,
                                        of |-> Len(s.updates)])
                   ELSE s.logs]
    ELSE LET update == s.updates[s.i]
             alloc == s.allocs[update.Alloc]
             existing == LookupTaskGroup(alloc.Job, update.TaskGroup.Name)
         IN
         IF tasksUpdated(update.TaskGroup, existing)
         THEN inplaceLoop(st, sel, j, as, [s EXCEPT !.i = @ + 1])
         ELSE LET node == st[alloc.NodeID] IN
         IF node.kind = "error"
         THEN inplaceLoop(st, sel, j, as, lookupFailed(s, alloc.NodeID))
         ELSE IF node.kind = "absent"
         THEN inplaceLoop(st, sel, j, as,
                  [s EXCEPT !.i = @ + 1,
                            !.trace = Append(@, Call("NodeByID", alloc.NodeID))])
         ELSE LET staged == AppendUpdate(s.plan, alloc.ID,
                                         AllocDesiredStatusStop, allocInPlace)
                  option == sel[alloc.ID]
                  selected == s.trace \o <<Call("NodeByID", alloc.NodeID),
                                           Call("SetNodes", alloc.NodeID),
                                           Call("AppendUpdate", alloc.ID),
                                           Call("Select", update.TaskGroup.Name)>>
                  retracted == retractStaged([plan |-> staged, trace |-> selected],
                                             option, alloc.ID)
                  popped == retracted.plan
                  tr == retracted.trace
              IN
         IF ~option.feasible
         THEN inplaceLoop(st, sel, j, as,
                  [s EXCEPT !.i = @ + 1, !.plan = popped, !.trace = tr])
         ELSE LET new == copyAndUpdate(s.allocs, alloc.ID, j, option)
              IN  inplaceLoop(st, sel, j, as,
                      [s EXCEPT !.updates = removeResolved(@, s.i, s.n),
                                !.n = @ - 1,
                                !.inplace = @ + 1,
                                !.allocs = new.heap,
                                !.plan = AppendAlloc(popped, new.alloc),
                                !.trace = Append(tr, Call("AppendAlloc", alloc.ID))])

\* inplaceUpdate(ctx, eval, job, stack, updates), with the state st and the
\* plan p of ctx, the existing allocations as and the stack's Select sel.
inplaceUpdate(st, p, sel, j, as, us) ==
    inplaceLoop(st, sel, j, as,
        [updates |-> us, i |-> 1, n |-> Len(us), inplace |-> 0, plan |-> p,
         plan0 |-> p, allocs |-> as, trace |-> <<>>, logs |-> <<>>])

InplaceIdle ==
    /\ updates = <<>>
    /\ stack = EmptyMap
    /\ inplace = NotCalled

allocNotNeeded == "alloc not needed due to job update"

\* The plan at the call: empty, or with the stop of another allocation that
\* the pass staged before.
InplacePlans ==
    {EmptyPlan,
     AppendUpdate(EmptyPlan, 100, AllocDesiredStatusStop, allocNotNeeded)}

\* Any list of update candidates for the task group "api", each an existing
\* allocation of its own, on any node, placed for any old version of the task
\* group; any outcome of Select for each.
InitInplace ==
    /\ job = [ModifyIndex |-> 2, TaskGroups |-> <<NewTG>>]
    /\ allocs \in {[i \in DOMAIN l |-> RunningAlloc(i, l[i][1], l[i][2])] :
                      l \in SeqsUpTo(InplaceNodeIDs \X OldTGs, MaxUpdates)}
    /\ updates = [i \in DOMAIN allocs |-> allocTuple(allocs[i].Name, NewTG, i)]
    /\ stack \in [DOMAIN allocs -> Options(NewTG)]
    /\ state = InplaceState
    /\ plan \in InplacePlans
    /\ inplace = NotCalled
    /\ pc = "start"

\* One call inplaceUpdate(ctx, eval, job, stack, updates).
InplaceUpdate ==
    /\ ~inplace.called
    /\ inplace' = inplaceUpdate(state, plan, stack, job, allocs, updates)
    /\ plan' = inplace'.plan
    /\ allocs' = inplace'.allocs
    /\ pc' = "updated"
    /\ UNCHANGED <<job, state, updates, stack>>

(***************************************************************************)
(* materializeTaskGroups, materializeSystemTaskGroups                      *)
(* (scheduler/util.go:27-49)                                               *)
(***************************************************************************)
\* The largest count of a task group; counts start below zero.
MaxCount == 2

\* The most task groups of a job, and the most nodes handed in.
MaxGroups == 2

JobNames == {"web"}

\* A task group as the materializers read it.
TaskGroup(name, count) == [Name |-> name, Count |-> count]

\* The task group lists of a job: the names of a job's groups are distinct.
TaskGroupLists ==
    {l \in SeqsUpTo({TaskGroup(n, c) : n \in TaskGroups, c \in -1 .. MaxCount},
                    MaxGroups) :
        \A a, b \in DOMAIN l : l[a].Name = l[b].Name => a = b}

MatJobs == {[Name |-> n, TaskGroups |-> l] : n \in JobNames, l \in TaskGroupLists}

\* The node lists handed to materializeSystemTaskGroups.
NodeLists == SeqsUpTo({[ID |-> id] : id \in NodeIDs}, MaxGroups)

\* fmt.Sprintf("%s.%s[%d]", job.Name, tg.Name, i) with id the decimal form
\* of i, fmt.Sprintf("%s.%s[%s]", job.Name, tg.Name, node.ID) with id the
\* node's.
instanceName(j, tg, id) == j.Name \o "." \o tg.Name \o "[" \o id \o "]"

\* out[name] = tg
setEntry(out, name, tg) == (name :> tg) @@ out

\* A plausible slip: i <= tg.Count.
moreInstancesInclusive(i, tg) == i <= tg.Count

\* The condition of "for i := 0; i < tg.Count; i++".
moreInstances(i, tg) == i < tg.Count

\* The inner loop of materializeTaskGroups, from index i on.
RECURSIVE countExpansion(_, _, _, _)
countExpansion(j, tg, i, out) ==
    IF moreInstances(i, tg)
    THEN countExpansion(j, tg, i + 1,
                        setEntry(out, instanceName(j, tg, ToString(i)), tg))
    ELSE out

\* The outer loop of materializeTaskGroups, from the k-th task group on.
RECURSIVE countGroups(_, _, _)
countGroups(j, k, out) ==
    IF k > Len(j.TaskGroups)
    THEN out
    ELSE countGroups(j, k + 1, countExpansion(j, j.TaskGroups[k], 0, out))

materializeTaskGroups(j) == countGroups(j, 1, EmptyMap)

\* The inner loop of materializeSystemTaskGroups, from the n-th node on.
RECURSIVE nodeExpansion(_, _, _, _, _)
nodeExpansion(j, tg, ns, n, out) ==
    IF n > Len(ns)
    THEN out
    ELSE nodeExpansion(j, tg, ns, n + 1,
                       setEntry(out, instanceName(j, tg, ns[n].ID), tg))

\* The outer loop of materializeSystemTaskGroups, from the k-th group on.
RECURSIVE systemGroups(_, _, _, _)
systemGroups(j, ns, k, out) ==
    IF k > Len(j.TaskGroups)
    THEN out
    ELSE systemGroups(j, ns, k + 1, nodeExpansion(j, j.TaskGroups[k], ns, 1, out))

materializeSystemTaskGroups(j, ns) == systemGroups(j, ns, 1, EmptyMap)

MatIdle ==
    /\ matJob = [Name |-> "", TaskGroups |-> <<>>]
    /\ matNodes = <<>>
    /\ mat = [count |-> NotCalled, system |-> NotCalled]

\* Any job and any list of nodes; neither materializer called yet.
InitMat ==
    /\ matJob \in MatJobs
    /\ matNodes \in NodeLists
    /\ mat = [count |-> NotCalled, system |-> NotCalled]

\* One call materializeTaskGroups(job).
MaterializeTaskGroups ==
    /\ ~mat.count.called
    /\ mat' = [mat EXCEPT !.count =
                  [called |-> TRUE, out |-> materializeTaskGroups(matJob)]]
    /\ UNCHANGED <<matJob, matNodes>>

\* One call materializeSystemTaskGroups(job, nodes).
MaterializeSystemTaskGroups ==
    /\ ~mat.system.called
    /\ mat' = [mat EXCEPT !.system =
                  [called |-> TRUE,
                   out |-> materializeSystemTaskGroups(matJob, matNodes)]]
    /\ UNCHANGED <<matJob, matNodes>>

(***************************************************************************)
(* cpusetFixer (drivers/docker/reconcile_cpuset.go), cgutil.CopyCpuset     *)
(***************************************************************************)
\* The threads that call Start, and the goroutines Start may spawn.
Starters == {"t1", "t2"}

LoopIds == {1, 2}

\* The coordinates (container id, allocation id, task name) of the tasks
\* the driver may track.
Coordinates ==
    {[containerID |-> "c1", allocID |-> "a1", task |-> "web"],
     [containerID |-> "c2", allocID |-> "a2", task |-> "web"]}

V2CgroupRoot == "/sys/fs/cgroup"

\* d.config.CgroupParent
CgroupParent == "nomad.slice"

\* cgutil.CgroupID(allocID, task)
CgroupID(v2, allocID, task) ==
    IF v2 THEN allocID \o "." \o task \o ".scope" ELSE task \o "." \o allocID

NomadScope(v2, c) == CgroupID(v2, c.allocID, c.task)

DockerScope(c) == "docker-" \o c.containerID \o ".scope"

\* filepath.Join(cgutil.V2CgroupRoot, cf.parent, scope)
ScopePath(scope) == V2CgroupRoot \o "/" \o CgroupParent \o "/" \o scope

\* The cpuset.cpus files: those of the cgroups Nomad manages hold the
\* assigned value, those of the cgroups docker made hold docker's.
AssignedCpus == "0-3"

DockerCpus == "0-7"

InitCgroup ==
    [p \in {ScopePath(NomadScope(TRUE, c)) : c \in Coordinates}
             \cup {ScopePath(DockerScope(c)) : c \in Coordinates} |->
        IF \E c \in Coordinates : p = ScopePath(NomadScope(TRUE, c))
        THEN AssignedCpus
        ELSE DockerCpus]

\* What the file operations of one CopyCpuset do: both work, ReadFile
\* fails, WriteFile fails.
CopyOutcomes == {"ok", "read failed", "write failed"}

\* cgutil.CopyCpuset(source, destination) over the files fs.
CopyCpuset(fs, source, destination, outcome) ==
    IF outcome = "read failed"
    THEN [files |-> fs, err |-> "read failed"]
    ELSE IF outcome = "write failed"
    THEN [files |-> fs, err |-> "write failed"]
    ELSE [files |-> [fs EXCEPT ![destination] = fs[source]], err |-> Nil]

\* A plausible slip: the body of Start runs on every call.
runsBodyAlways(o) == TRUE

\* sync.Once: Do runs its function for the first caller only.
runsBody(o) == o = "fresh"

\* A plausible slip: the select has no case for cf.ctx.Done().
doneNever(c) == FALSE

\* case <-cf.ctx.Done() is ready.
doneReady(c) == c

\* A plausible slip: scan returns at the first copy that fails.
afterFixStopAtError(pending, c, err) ==
    IF err = Nil THEN pending \ {c} ELSE {}

\* "for c := range coordinates" after fix(c): fix returns nothing, the
\* range goes on with the others.
afterFix(pending, c, err) == pending \ {c}

\* A plausible slip: trackedTasks returns with the read lock held.
returnHoldingLock(lk, l) == lk

\* defer d.tasks.lock.RUnlock()
releaseAfterSnapshot(lk, l) == [lk EXCEPT !.readers = @ \ {l}]

\* A goroutine that was not started.
NoLoop ==
    [pc |-> "none", timer |-> "none", snapshot |-> {}, pending |-> {},
     attempted |-> {}, failed |-> {}, prevFailed |-> {}]

\* "go cf.loop()" and helper.NewSafeTimer(0): a new goroutine at its
\* select, its timer armed.
spawn(lp) ==
    IF \E l \in LoopIds : lp[l].pc = "none"
    THEN LET l == CHOOSE l \in LoopIds :
                      /\ lp[l].pc = "none"
                      /\ \A m \in LoopIds : lp[m].pc = "none" => l <= m
         IN  [lp EXCEPT ![l] = [NoLoop EXCEPT !.pc = "select", !.timer = "armed"]]
    ELSE lp

Exited == \E l \in LoopIds : loop[l].pc = "exited"

FixerIdle ==
    /\ useV2 = FALSE
    /\ once = "fresh"
    /\ starter = [t \in Starters |-> "idle"]
    /\ lateStart = FALSE
    /\ cancelled = FALSE
    /\ loop = [l \in LoopIds |-> NoLoop]
    /\ lock = [readers |-> {}, writer |-> FALSE]
    /\ tracked = {}
    /\ cgroup = InitCgroup

\* newCpusetFixer(d): the fixer of a driver that tracks any tasks, under
\* either cgroups mode; Start not called, the context not cancelled.
InitFixer ==
    /\ useV2 \in BOOLEAN
    /\ once = "fresh"
    /\ starter = [t \in Starters |-> "idle"]
    /\ lateStart = FALSE
    /\ cancelled = FALSE
    /\ loop = [l \in LoopIds |-> NoLoop]
    /\ lock = [readers |-> {}, writer |-> FALSE]
    /\ tracked \in SUBSET Coordinates
    /\ cgroup = InitCgroup

\* Thread t calls cf.Start() and enters once.Do: the first caller goes on to
\* run the function, a caller that finds it running waits, a later one
\* returns.
StartCall(t) ==
    /\ starter[t] \in {"idle", "returned"}
    /\ IF runsBody(once)
       THEN /\ once' = "running"
            /\ starter' = [starter EXCEPT ![t] = "inDo"]
            /\ UNCHANGED lateStart
       ELSE /\ once = "done"
            /\ starter' = [starter EXCEPT ![t] = "returned"]
            /\ lateStart' = (lateStart \/ Exited)
            /\ UNCHANGED once
    /\ UNCHANGED <<useV2, cancelled, loop, lock, tracked, cgroup>>

\* Thread t runs the function of once.Do and returns from Start.
StartBody(t) ==
    /\ starter[t] = "inDo"
    /\ loop' = IF useV2 THEN spawn(loop) ELSE loop
    /\ once' = "done"
    /\ starter' = [starter EXCEPT ![t] = "returned"]
    /\ lateStart' = (lateStart \/ Exited)
    /\ UNCHANGED <<useV2, cancelled, lock, tracked, cgroup>>

\* The driver's context is cancelled for shutdown.
Cancel ==
    /\ ~cancelled
    /\ cancelled' = TRUE
    /\ UNCHANGED <<useV2, once, starter, lateStart, loop, lock, tracked, cgroup>>

\* The timer of goroutine l fires: timer.C is ready.
TimerFire(l) ==
    /\ loop[l].timer = "armed"
    /\ loop' = [loop EXCEPT ![l].timer = "fired"]
    /\ UNCHANGED <<useV2, once, starter, lateStart, cancelled, lock, tracked,
                   cgroup>>

\* loop, case <-cf.ctx.Done(): return, and the deferred cancel stops the
\* timer.
LoopDone(l) ==
    /\ loop[l].pc = "select"
    /\ doneReady(cancelled)
    /\ loop' = [loop EXCEPT ![l].pc = "exited", ![l].timer = "stopped"]
    /\ UNCHANGED <<useV2, once, starter, lateStart, cancelled, lock, tracked,
                   cgroup>>

\* loop, case <-timer.C: timer.Stop() and the call of cf.scan(), up to the
\* RLock of cf.tasks().
LoopTick(l) ==
    /\ loop[l].pc = "select"
    /\ loop[l].timer = "fired"
    /\ loop' = [loop EXCEPT ![l].pc = "rlock",
                            ![l].timer = "stopped",
                            ![l].snapshot = {},
                            ![l].pending = {},
                            ![l].attempted = {},
                            ![l].failed = {},
                            ![l].prevFailed = loop[l].failed]
    /\ UNCHANGED <<useV2, once, starter, lateStart, cancelled, lock, tracked,
                   cgroup>>

\* trackedTasks: d.tasks.lock.RLock(), which waits while a writer holds the
\* lock.
TrackedRLock(l) ==
    /\ loop[l].pc = "rlock"
    /\ ~lock.writer
    /\ lock' = [lock EXCEPT !.readers = @ \cup {l}]
    /\ loop' = [loop EXCEPT ![l].pc = "snapshot"]
    /\ UNCHANGED <<useV2, once, starter, lateStart, cancelled, tracked, cgroup>>

\* trackedTasks: the copy of the store into a map of coordinates, the
\* deferred RUnlock and the return into scan.
TrackedReturn(l) ==
    /\ loop[l].pc = "snapshot"
    /\ loop' = [loop EXCEPT ![l].pc = "fix",
                            ![l].snapshot = tracked,
                            ![l].pending = tracked]
    /\ lock' = releaseAfterSnapshot(lock, l)
    /\ UNCHANGED <<useV2, once, starter, lateStart, cancelled, tracked, cgroup>>

\* scan: cf.fix(c) for the next coordinate c of the range, in any order;
\* a failed copy is logged.
Fix(l) ==
    /\ loop[l].pc = "fix"
    /\ \E c \in loop[l].pending, outcome \in CopyOutcomes :
          LET copy == CopyCpuset(cgroup, ScopePath(NomadScope(useV2, c)),
                                 ScopePath(DockerScope(c)), outcome)
          IN  /\ cgroup' = copy.files
              /\ loop' = [loop EXCEPT
                            ![l].attempted = @ \cup {c},
                            ![l].failed = IF copy.err = Nil THEN @ ELSE @ \cup {c},
                            ![l].pending = afterFix(@, c, copy.err)]
    /\ UNCHANGED <<useV2, once, starter, lateStart, cancelled, lock, tracked>>

\* scan returns when the range is over, and loop re-arms the timer:
\* timer.Reset(cf.interval).
ScanDone(l) ==
    /\ loop[l].pc = "fix"
    /\ loop[l].pending = {}
    /\ loop' = [loop EXCEPT ![l].pc = "select", ![l].timer = "armed"]
    /\ UNCHANGED <<useV2, once, starter, lateStart, cancelled, lock, tracked,
                   cgroup>>

\* The write lock can be taken: nobody holds the lock.
canLock(lk) == ~lk.writer /\ lk.readers = {}

\* The driver starts or stops a task: d.tasks.lock.Lock().
WriterLock ==
    /\ canLock(lock)
    /\ lock' = [lock EXCEPT !.writer = TRUE]
    /\ UNCHANGED <<useV2, once, starter, lateStart, cancelled, loop, tracked,
                   cgroup>>

\* The driver adds the task's handle to the store or deletes it, and
\* unlocks.
WriterStore ==
    /\ lock.writer
    /\ \E c \in Coordinates : tracked' \in {tracked \cup {c}, tracked \ {c}}
    /\ lock' = [lock EXCEPT !.writer = FALSE]
    /\ UNCHANGED <<useV2, once, starter, lateStart, cancelled, loop, cgroup>>

(***************************************************************************)
(* Specifications                                                          *)
(***************************************************************************)
\* The materializers and the cpuset fixer at rest.
OthersIdle == MatIdle /\ FixerIdle

InitR == InitRetry /\ EvictIdle /\ DiffIdle /\ InplaceIdle /\ OthersIdle

NextR == RetryMax /\ UNCHANGED <<plan, result>> /\ UNCHANGED evictVars
            /\ UNCHANGED diffVars /\ UNCHANGED inplaceVars
            /\ UNCHANGED matVars /\ UNCHANGED fixerVars

SpecRetry == InitR /\ [][NextR]_vars

InitE == InitEvict /\ RetryIdle /\ DiffIdle /\ InplaceIdle /\ OthersIdle

NextE == EvictAndPlace /\ UNCHANGED retryVars /\ UNCHANGED diffVars
            /\ UNCHANGED inplaceVars /\ UNCHANGED matVars
            /\ UNCHANGED fixerVars

SpecEvict == InitE /\ [][NextE]_vars

InitD == InitDiff /\ RetryIdle /\ InplaceIdle /\ limit = 0 /\ plan = EmptyPlan
            /\ evict = [calls |-> 0] /\ OthersIdle

NextD == DiffAllocs /\ UNCHANGED retryVars /\ UNCHANGED evictVars
            /\ UNCHANGED inplaceVars /\ UNCHANGED plan
            /\ UNCHANGED matVars /\ UNCHANGED fixerVars

SpecDiff == InitD /\ [][NextD]_vars

InitT == InitTaint /\ RetryIdle /\ InplaceIdle /\ limit = 0 /\ plan = EmptyPlan
            /\ evict = [calls |-> 0] /\ OthersIdle

NextT ==
    \/ TaintedNodes /\ UNCHANGED retryVars /\ UNCHANGED evictVars
           /\ UNCHANGED inplaceVars /\ UNCHANGED plan
           /\ UNCHANGED matVars /\ UNCHANGED fixerVars
    \/ DiffTainted /\ UNCHANGED retryVars /\ UNCHANGED evictVars
           /\ UNCHANGED inplaceVars /\ UNCHANGED plan
           /\ UNCHANGED matVars /\ UNCHANGED fixerVars

SpecTaint == InitT /\ [][NextT]_vars

InitI == InitInplace /\ RetryIdle /\ limit = 0 /\ evict = [calls |-> 0]
            /\ required = EmptyMap /\ taintArg = EmptyMap /\ tainted = NotCalled
            /\ result = EmptyDiff /\ OthersIdle

NextI == InplaceUpdate /\ UNCHANGED retryVars /\ UNCHANGED evictVars
            /\ UNCHANGED <<required, taintArg, tainted, result>>
            /\ UNCHANGED matVars /\ UNCHANGED fixerVars

SpecInplace == InitI /\ [][NextI]_vars

InitM == InitMat /\ RetryIdle /\ EvictIdle /\ DiffIdle /\ InplaceIdle
            /\ FixerIdle

NextM ==
    \/ MaterializeTaskGroups /\ UNCHANGED scheduleVars /\ UNCHANGED fixerVars
    \/ MaterializeSystemTaskGroups /\ UNCHANGED scheduleVars
           /\ UNCHANGED fixerVars

SpecMat == InitM /\ [][NextM]_vars

InitF == InitFixer /\ RetryIdle /\ EvictIdle /\ DiffIdle /\ InplaceIdle
            /\ MatIdle

NextF ==
    \/ \E t \in Starters : StartCall(t) /\ UNCHANGED scheduleVars
                              /\ UNCHANGED matVars
    \/ \E t \in Starters : StartBody(t) /\ UNCHANGED scheduleVars
                              /\ UNCHANGED matVars
    \/ Cancel /\ UNCHANGED scheduleVars /\ UNCHANGED matVars
    \/ \E l \in LoopIds : TimerFire(l) /\ UNCHANGED scheduleVars
                             /\ UNCHANGED matVars
    \/ \E l \in LoopIds : LoopDone(l) /\ UNCHANGED scheduleVars
                             /\ UNCHANGED matVars
    \/ \E l \in LoopIds : LoopTick(l) /\ UNCHANGED scheduleVars
                             /\ UNCHANGED matVars
    \/ \E l \in LoopIds : TrackedRLock(l) /\ UNCHANGED scheduleVars
                             /\ UNCHANGED matVars
    \/ \E l \in LoopIds : TrackedReturn(l) /\ UNCHANGED scheduleVars
                             /\ UNCHANGED matVars
    \/ \E l \in LoopIds : Fix(l) /\ UNCHANGED scheduleVars /\ UNCHANGED matVars
    \/ \E l \in LoopIds : ScanDone(l) /\ UNCHANGED scheduleVars
                             /\ UNCHANGED matVars
    \/ WriterLock /\ UNCHANGED scheduleVars /\ UNCHANGED matVars
    \/ WriterStore /\ UNCHANGED scheduleVars /\ UNCHANGED matVars

SpecFixer == InitF /\ [][NextF]_vars

\* The goroutine of the loop is scheduled, a timer case that is ready is
\* taken unless the cancellation case is, the cancellation case is taken if
\* it is ready again and again (select picks among the ready cases at
\* random), a reader gets the lock once writers release it, and a writer
\* that has the lock releases it.
FairF ==
    /\ \A l \in LoopIds :
          /\ WF_vars(LoopTick(l) /\ UNCHANGED scheduleVars /\ UNCHANGED matVars)
          /\ SF_vars(LoopDone(l) /\ UNCHANGED scheduleVars /\ UNCHANGED matVars)
          /\ SF_vars(TrackedRLock(l) /\ UNCHANGED scheduleVars
                        /\ UNCHANGED matVars)
          /\ WF_vars(TrackedReturn(l) /\ UNCHANGED scheduleVars
                        /\ UNCHANGED matVars)
          /\ WF_vars(Fix(l) /\ UNCHANGED scheduleVars /\ UNCHANGED matVars)
          /\ WF_vars(ScanDone(l) /\ UNCHANGED scheduleVars /\ UNCHANGED matVars)
    /\ WF_vars(WriterStore /\ UNCHANGED scheduleVars /\ UNCHANGED matVars)

SpecFixerLive == InitF /\ [][NextF]_vars /\ FairF

(***************************************************************************)
(* Properties                                                              *)
(***************************************************************************)
\* The number of tuples of bucket b that carry the name n.
NameCount(res, b, n) == Cardinality({k \in DOMAIN res[b] : res[b][k].Name = n})

\* The number of tuples of bucket b that refer to the allocation with ID i.
AllocCount(res, b, i) == Cardinality({k \in DOMAIN res[b] : res[b][k].Alloc = i})

NameTotal(res, n) ==
    NameCount(res, "place", n) + NameCount(res, "update", n)
        + NameCount(res, "migrate", n) + NameCount(res, "stop", n)
        + NameCount(res, "ignore", n)

BucketNames(res) ==
    UNION {{res[b][k].Name : k \in DOMAIN res[b]} : b \in Buckets}

ExistingNames == {allocs[i].Name : i \in DOMAIN allocs}

\* Allocation i is in bucket b as the tuple t, once, and in no other bucket.
OnlyIn(res, b, i, t) ==
    /\ AllocCount(res, b, i) = 1
    /\ \A k \in DOMAIN res[b] : res[b][k].Alloc = i => res[b][k] = t
    /\ \A c \in Buckets \ {b} : AllocCount(res, c, i) = 0

TaintedTrue(tn, i) ==
    allocs[i].NodeID \in DOMAIN tn /\ tn[allocs[i].NodeID]

RequiredTuple(i) == allocTuple(allocs[i].Name, required[allocs[i].Name], i)

\* C1 as stated: the names of the five buckets are the existing names and the
\* desired names, and each such name appears exactly once across the buckets,
\* the existing allocations' names not being assumed distinct.
C1_EachNameOnce ==
    pc = "diffed" =>
        /\ BucketNames(result) = ExistingNames \cup DOMAIN required
        /\ \A n \in ExistingNames \cup DOMAIN required : NameTotal(result, n) = 1

\* C1 as amended: the names of the five buckets are the existing names and
\* the desired names; every existing allocation is in exactly one tuple of
\* the five buckets, under its own name; a desired name that no existing
\* allocation has is in place exactly once and nowhere else.  So a name
\* appears as often as there are existing allocations that have it, and once
\* when none has it.
C1_Partition ==
    pc = "diffed" =>
        /\ BucketNames(result) = ExistingNames \cup DOMAIN required
        /\ \A i \in DOMAIN allocs :
              \E b \in Buckets :
                  /\ AllocCount(result, b, i) = 1
                  /\ \A k \in DOMAIN result[b] :
                        result[b][k].Alloc = i => result[b][k].Name = allocs[i].Name
                  /\ \A c \in Buckets \ {b} : AllocCount(result, c, i) = 0
        /\ \A n \in ExistingNames \cup DOMAIN required :
              NameTotal(result, n) =
                  IF n \in ExistingNames
                  THEN Cardinality({i \in DOMAIN allocs : allocs[i].Name = n})
                  ELSE 1
        /\ \A n \in DOMAIN required \ ExistingNames :
              NameCount(result, "place", n) = 1

\* Two existing allocations share a desired name, and another name is placed.
C1_Witness ==
    /\ pc = "diffed"
    /\ \E i, k \in DOMAIN allocs :
          i # k /\ allocs[i].Name = allocs[k].Name
              /\ allocs[i].Name \in DOMAIN required
    /\ Len(result.place) > 0

\* C2: an existing allocation whose name is desired and whose node maps to
\* true in the taint map is in migrate, once, and in no other bucket, whatever
\* its recorded job modify-index.
C2_MigratePrecedence ==
    pc = "diffed" =>
        \A i \in DOMAIN allocs :
            (allocs[i].Name \in DOMAIN required /\ TaintedTrue(taintArg, i))
                => OnlyIn(result, "migrate", i, RequiredTuple(i))

\* A desired allocation on a tainted node with a stale job version, and one
\* with the current version, both migrated.
C2_Witness ==
    /\ pc = "diffed"
    /\ \E i, k \in DOMAIN allocs :
          /\ allocs[i].Name \in DOMAIN required /\ TaintedTrue(taintArg, i)
          /\ allocs[k].Name \in DOMAIN required /\ TaintedTrue(taintArg, k)
          /\ allocs[i].Job.ModifyIndex # job.ModifyIndex
          /\ allocs[k].Job.ModifyIndex = job.ModifyIndex
          /\ AllocCount(result, "migrate", i) = 1
          /\ AllocCount(result, "migrate", k) = 1

\* C3: an existing allocation whose name is not desired is in stop, once, and
\* in no other bucket, tainted or not and whatever its recorded job
\* modify-index; its tuple has the allocation and a nil task group.
C3_StopNotRequired ==
    pc = "diffed" =>
        \A i \in DOMAIN allocs :
            allocs[i].Name \notin DOMAIN required
                => OnlyIn(result, "stop", i, allocTuple(allocs[i].Name, Nil, i))

\* An allocation that is not desired, on a tainted node, with a stale job
\* version, stopped.
C3_Witness ==
    /\ pc = "diffed"
    /\ \E i \in DOMAIN allocs :
          /\ allocs[i].Name \notin DOMAIN required
          /\ TaintedTrue(taintArg, i)
          /\ allocs[i].Job.ModifyIndex # job.ModifyIndex
          /\ AllocCount(result, "stop", i) = 1

\* C4: a desired name that no existing allocation has is in place, with a nil
\* allocation; an existing allocation with a desired name on a node that is
\* not tainted is in update when its recorded job modify-index differs from
\* the job's, and in ignore when the two are equal.
C4_PlaceUpdateIgnore ==
    pc = "diffed" =>
        /\ \A n \in DOMAIN required \ ExistingNames :
              /\ NameCount(result, "place", n) = 1
              /\ \A k \in DOMAIN result.place :
                    result.place[k].Name = n
                        => result.place[k] = allocTuple(n, required[n], NilAlloc)
        /\ \A i \in DOMAIN allocs :
              (allocs[i].Name \in DOMAIN required /\ ~TaintedTrue(taintArg, i))
                  => IF allocs[i].Job.ModifyIndex # job.ModifyIndex
                     THEN OnlyIn(result, "update", i, RequiredTuple(i))
                     ELSE OnlyIn(result, "ignore", i, RequiredTuple(i))

\* One desired name is placed, one allocation with a newer recorded version is
\* an update and one with the job's version is ignored.
C4_Witness ==
    /\ pc = "diffed"
    /\ Len(result.place) = 1
    /\ \E i, k \in DOMAIN allocs :
          /\ allocs[i].Job.ModifyIndex > job.ModifyIndex
          /\ AllocCount(result, "update", i) = 1
          /\ allocs[k].Job.ModifyIndex = job.ModifyIndex
          /\ AllocCount(result, "ignore", k) = 1

\* The stop mutations evictAndPlace stages for the first k tuples of as.
Stops(as, k, desc) ==
    [i \in 1 .. k |-> [Alloc |-> as[i].Alloc,
                       DesiredStatus |-> AllocDesiredStatusStop,
                       DesiredDescription |-> desc]]

\* C5: a call of evictAndPlace with a list of length L and a budget B stages
\* min(L, B) stop mutations, for the first min(L, B) tuples and with the given
\* reason, and appends those tuples to place; with L <= B it returns false and
\* the budget is B - L, with L > B it returns true and the budget is 0.
C5_EvictBudget ==
    evict.calls > 0 =>
        LET L == Len(evict.allocs)
            B == evict.limit0
            k == Min(L, B)
        IN  /\ plan.NodeUpdate
                  = evict.plan0.NodeUpdate \o Stops(evict.allocs, k, evict.desc)
            /\ plan.NodeAllocation = evict.plan0.NodeAllocation
            /\ result.place = evict.diff0.place \o SubSeq(evict.allocs, 1, k)
            /\ \A b \in Buckets \ {"place"} : result[b] = evict.diff0[b]
            /\ L <= B => (~evict.ret /\ limit = B - L)
            /\ L > B => (evict.ret /\ limit = 0)

\* A call whose list fits the budget exactly, after a call that staged stops.
C5_Witness ==
    /\ evict.calls > 1
    /\ Len(evict.allocs) = evict.limit0
    /\ evict.limit0 > 0
    /\ Len(evict.plan0.NodeUpdate) > 0
    /\ ~evict.ret

Terminating(r) == r.err # Nil \/ r.done

\* C6: retryMax(limit, cb) stops at the first invocation of cb that returns an
\* error (which it returns, also when done is true) or done with no error
\* (success); when limit invocations all return (false, nil) it returns the
\* max-attempts error with evaluation status failed.  cb is invoked k times, k
\* the index of the first terminating invocation, and never more than limit
\* times (not at all when limit <= 0).
C6_RetryMax ==
    retry.called =>
        LET T == {i \in 1 .. max : Terminating(cb[i])} IN
        /\ retry.calls <= (IF max > 0 THEN max ELSE 0)
        /\ IF T # {}
           THEN LET k == CHOOSE i \in T : \A j \in T : i <= j IN
                /\ retry.calls = k
                /\ cb[k].err # Nil
                      => (retry.kind = "error" /\ retry.err = cb[k].err)
                /\ cb[k].err = Nil => (retry.kind = "nil" /\ retry.err = Nil)
           ELSE /\ retry.kind = "SetStatusError"
                /\ retry.EvalStatus = EvalStatusFailed
                /\ retry.calls = (IF max > 0 THEN max ELSE 0)

\* The second invocation returns an error together with done.
C6_Witness ==
    /\ retry.called
    /\ max >= 2
    /\ ~Terminating(cb[1])
    /\ cb[2].done /\ cb[2].err # Nil
    /\ retry.calls = 2
    /\ retry.err = cb[2].err

AllocNodeIDs == {allocs[i].NodeID : i \in DOMAIN allocs}

\* C9: when taintedNodes returns a map, its keys are the node ids of the
\* allocations, each of them was looked up once, a node id the state does not
\* contain maps to true and any other to ShouldDrainNode(status) or the drain
\* flag; and diffAllocs with that map puts a desired allocation on a vanished
\* node in migrate.
C9_TaintedNodes ==
    (tainted.called /\ tainted.err = Nil) =>
        /\ ~tainted.isNil
        /\ DOMAIN tainted.out = AllocNodeIDs
        /\ Len(tainted.lookups) = Cardinality(AllocNodeIDs)
        /\ {tainted.lookups[k] : k \in DOMAIN tainted.lookups} = AllocNodeIDs
        /\ \A id \in AllocNodeIDs :
              tainted.out[id] =
                  IF state[id].kind = "absent" THEN TRUE
                  ELSE ShouldDrainNode(state[id].Status) \/ state[id].Drain
        /\ pc = "diffed" =>
              \A i \in DOMAIN allocs :
                  (allocs[i].Name \in DOMAIN required
                       /\ state[allocs[i].NodeID].kind = "absent")
                      => OnlyIn(result, "migrate", i, RequiredTuple(i))

\* Two desired allocations on one vanished node: one lookup, both migrated.
C9_Witness ==
    /\ pc = "diffed"
    /\ Len(allocs) = 2
    /\ Len(tainted.lookups) = 1
    /\ state[allocs[1].NodeID].kind = "absent"
    /\ Len(result.migrate) = 2

\* How often candidate k of the list handed in is in the returned residual.
InResidual(k) ==
    Cardinality({r \in DOMAIN inplace.residual : inplace.residual[r] = updates[k]})

\* How many allocations appended to the plan derive from candidate k.
InPlan(k) ==
    Cardinality({a \in DOMAIN plan.NodeAllocation :
                    plan.NodeAllocation[a].ID = updates[k].Alloc})

\* Candidate k fails the structural-update test.
Structural(k) ==
    tasksUpdated(updates[k].TaskGroup,
                 LookupTaskGroup(allocs[updates[k].Alloc].Job,
                                 updates[k].TaskGroup.Name))

NodeKind(k) == state[allocs[updates[k].Alloc].NodeID].kind

\* C7: every candidate handed to inplaceUpdate is either in the returned
\* residual, once, or has exactly one new allocation in the plan, never both
\* and never neither; a candidate that fails the structural test, whose node
\* is not found or for which Select gives no option is in the residual; the
\* residual holds nothing but candidates handed in.
C7_NoCandidateDropped ==
    inplace.called =>
        /\ \A k \in DOMAIN updates :
              /\ \/ InResidual(k) = 1 /\ InPlan(k) = 0
                 \/ InResidual(k) = 0 /\ InPlan(k) = 1
              /\ (Structural(k) \/ NodeKind(k) # "node" \/ ~stack[k].feasible)
                    => InResidual(k) = 1
        /\ \A r \in DOMAIN inplace.residual :
              \E k \in DOMAIN updates : inplace.residual[r] = updates[k]
        /\ Len(plan.NodeAllocation) + Len(inplace.residual) = Len(updates)

\* The first of two candidates is updated in place, the second one moves into
\* its slot and stays in the residual.
C7_Witness ==
    /\ inplace.called
    /\ Len(updates) = 2
    /\ InPlan(1) = 1
    /\ inplace.residual = <<updates[2]>>

\* C8: every allocation inplaceUpdate appends to the plan has, for each task,
\* the Networks of that task in the original allocation's TaskResources,
\* whatever networks Select offered.
C8_NetworksPreserved ==
    inplace.called =>
        \A a \in DOMAIN plan.NodeAllocation :
            LET new == plan.NodeAllocation[a]
                old == allocs[new.ID]
            IN  \A task \in DOMAIN new.TaskResources :
                    /\ task \in DOMAIN old.TaskResources
                    /\ new.TaskResources[task].Networks
                          = old.TaskResources[task].Networks

\* An allocation updated in place whose option offered other networks and
\* another cpu share: the cpu is the option's.
C8_Witness ==
    /\ inplace.called
    /\ \E a \in DOMAIN plan.NodeAllocation :
          LET new == plan.NodeAllocation[a] IN
          /\ stack[new.ID].TaskResources["web"].Networks
                # allocs[new.ID].TaskResources["web"].Networks
          /\ new.TaskResources["web"].CPU = stack[new.ID].TaskResources["web"].CPU
          /\ new.TaskResources["web"].CPU # allocs[new.ID].TaskResources["web"].CPU

\* The trace entry e is a NodeByID call that returned an error.
FailedLookup(e) ==
    /\ inplace.trace[e].op = "NodeByID"
    /\ state[inplace.trace[e].arg].kind = "error"

\* C10 as stated: a NodeByID error in inplaceUpdate ends the pass; nothing is
\* looked up, selected or added to the plan after it.
C10_LookupFailureFatal ==
    inplace.called =>
        \A e \in DOMAIN inplace.trace : FailedLookup(e) => e = Len(inplace.trace)

\* C10 as amended: a NodeByID error in inplaceUpdate is logged and not fatal;
\* the candidate stays in the residual, no allocation of it is added to the
\* plan, and the pass goes on: every candidate that passes the structural
\* test, whose node is found and for which Select gives an option is updated
\* in place, whether or not a lookup failed before it.
C10_LookupFailureSkipped ==
    inplace.called =>
        /\ \A k \in DOMAIN updates :
              (~Structural(k) /\ NodeKind(k) = "error")
                  => /\ InResidual(k) = 1
                     /\ InPlan(k) = 0
                     /\ \E l \in DOMAIN inplace.logs :
                           inplace.logs[l] =
                               [level |-> "ERR",
                                node |-> allocs[updates[k].Alloc].NodeID]
        /\ \A k \in DOMAIN updates :
              (~Structural(k) /\ NodeKind(k) = "node" /\ stack[k].feasible)
                  => InPlan(k) = 1
        /\ Cardinality({l \in DOMAIN inplace.logs : inplace.logs[l].level = "ERR"})
              = Cardinality({k \in DOMAIN updates :
                                ~Structural(k) /\ NodeKind(k) = "error"})

\* The lookup of the first candidate's node fails and the second candidate is
\* updated in place after it.
C10_Witness ==
    /\ inplace.called
    /\ Len(inplace.trace) > 1
    /\ FailedLookup(1)
    /\ inplace.trace[Len(inplace.trace)].op = "AppendAlloc"
    /\ InResidual(1) = 1

\* C11: when a node lookup of taintedNodes fails, taintedNodes returns the
\* error and a nil map, however many node ids it had classified before; the
\* failing lookup is its last one, and it fails whenever an allocation refers
\* to a node whose lookup fails.
C11_TaintedNodesError ==
    tainted.called =>
        /\ (\E i \in DOMAIN allocs : state[allocs[i].NodeID].kind = "error")
              <=> tainted.err # Nil
        /\ tainted.err # Nil =>
              /\ tainted.isNil
              /\ DOMAIN tainted.out = {}
              /\ state[tainted.lookups[Len(tainted.lookups)]].kind = "error"
              /\ \A k \in 1 .. Len(tainted.lookups) - 1 :
                    state[tainted.lookups[k]].kind # "error"
              /\ pc = "failed"
              /\ result = EmptyDiff

\* The second lookup fails after the first node was classified.
C11_Witness ==
    /\ tainted.called
    /\ tainted.err # Nil
    /\ Len(tainted.lookups) = 2
    /\ state[tainted.lookups[1]].kind = "node"

\* C19: over the calls of evictAndPlace that share one budget starting at
\* B0 >= 0, the budget is never negative and the stop mutations staged by all
\* calls together never exceed B0; once a call has returned true the budget is
\* 0, and a later call stages no stop mutation, appends nothing to place and
\* returns true for a list that is not empty.
C19_SharedBudget ==
    /\ limit >= 0
    /\ Len(plan.NodeUpdate) <= evict.budget0
    /\ Len(plan.NodeUpdate) + limit <= evict.budget0
    /\ evict.exhausted => limit = 0
    /\ (evict.calls > 0 /\ evict.exhausted0) =>
          /\ evict.limit0 = 0
          /\ plan = evict.plan0
          /\ result = evict.diff0
          /\ Len(evict.allocs) > 0 => evict.ret

\* A call that staged a stop and returned true, then a call with a list that
\* is not empty.
C19_Witness ==
    /\ evict.calls > 1
    /\ evict.exhausted0
    /\ Len(evict.plan0.NodeUpdate) > 0
    /\ Len(evict.allocs) > 0
    /\ evict.ret

Trace == inplace.trace

\* The trace entries e .. e+3 are SetNodes of the node just looked up, the
\* staging of the stop of allocation a, Select of the task group and the
\* retraction of the stop of a.
Window(e, a) ==
    /\ e > 1 /\ e + 3 <= Len(Trace)
    /\ Trace[e - 1] = Call("NodeByID", allocs[a].NodeID)
    /\ Trace[e] = Call("SetNodes", allocs[a].NodeID)
    /\ Trace[e + 1] = Call("AppendUpdate", a)
    /\ Trace[e + 2] = Call("Select", NewTG.Name)
    /\ Trace[e + 3] = Call("PopUpdate", a)

\* The windows of candidate k in the trace.
Windows(k) == {e \in DOMAIN Trace : Window(e, updates[k].Alloc)}

\* C15: in inplaceUpdate every candidate that passes the structural test and
\* whose node is found gets SetNodes, AppendUpdate(stop), Select and
\* PopUpdate of the same allocation, in that order and whether or not Select
\* gave an option; every plan-sink or stack call belongs to such a sequence,
\* and an AppendAlloc comes only right after the PopUpdate of its allocation;
\* on return the staged stops of the plan are those from before the call and
\* the plan has gained one allocation per resolved candidate and nothing
\* else; with no candidates the residual is empty and the plan is unchanged.
C15_SpeculativeStopRetracted ==
    inplace.called =>
        /\ \A k \in DOMAIN updates :
              IF ~Structural(k) /\ NodeKind(k) = "node"
              THEN Cardinality(Windows(k)) = 1
              ELSE Windows(k) = {}
        /\ \A e \in DOMAIN Trace :
              /\ Trace[e].op = "SetNodes"
                    => \E k \in DOMAIN updates : e \in Windows(k)
              /\ Trace[e].op = "AppendUpdate"
                    => \E k \in DOMAIN updates : e - 1 \in Windows(k)
              /\ Trace[e].op = "Select"
                    => \E k \in DOMAIN updates : e - 2 \in Windows(k)
              /\ Trace[e].op = "PopUpdate"
                    => \E k \in DOMAIN updates : e - 3 \in Windows(k)
              /\ Trace[e].op = "AppendAlloc"
                    => /\ e > 1
                       /\ Trace[e - 1] = Call("PopUpdate", Trace[e].arg)
        /\ plan.NodeUpdate = inplace.plan0.NodeUpdate
        /\ Len(plan.NodeAllocation)
              = Len(inplace.plan0.NodeAllocation) + inplace.inplace
        /\ inplace.inplace = Cardinality({k \in DOMAIN updates : InPlan(k) = 1})
        /\ SubSeq(plan.NodeAllocation, 1, Len(inplace.plan0.NodeAllocation))
              = inplace.plan0.NodeAllocation
        /\ updates = <<>> =>
              /\ inplace.residual = <<>>
              /\ plan = inplace.plan0
              /\ Trace = <<>>

\* The plan came with a staged stop of another allocation; one candidate got
\* an option and one did not, both had their stop staged and retracted, and
\* the plan holds the earlier stop alone.
C15_Witness ==
    /\ inplace.called
    /\ Len(updates) = 2
    /\ Len(inplace.plan0.NodeUpdate) = 1
    /\ stack[1].feasible /\ ~stack[2].feasible
    /\ Windows(1) # {} /\ Windows(2) # {}
    /\ InPlan(1) = 1
    /\ plan.NodeUpdate = inplace.plan0.NodeUpdate

\* The allocation with id a as it was before the call.
Original(a) == inplace.allocs0[a]

\* C16: an in-place update makes a new record and leaves the existing one as
\* it was: every allocation appended to the plan has the id, name and node of
\* the original, the evaluation's id, the new job, the option's size and task
\* resources (networks restored), the context's metrics, desired status run
\* and client status pending; every existing allocation has after the call
\* the fields it had before.
C16_NewRecordOriginalUnchanged ==
    inplace.called =>
        /\ allocs = inplace.allocs0
        /\ \A a \in DOMAIN plan.NodeAllocation :
              LET new == plan.NodeAllocation[a]
                  old == Original(new.ID)
                  option == stack[new.ID]
              IN  /\ new.ID = old.ID
                  /\ new.Name = old.Name
                  /\ new.NodeID = old.NodeID
                  /\ new.EvalID = EvalID
                  /\ new.Job = job
                  /\ new.Resources = option.size
                  /\ DOMAIN new.TaskResources = DOMAIN option.TaskResources
                  /\ \A t \in DOMAIN new.TaskResources :
                        new.TaskResources[t].CPU = option.TaskResources[t].CPU
                  /\ new.Metrics = CtxMetrics
                  /\ new.DesiredStatus = AllocDesiredStatusRun
                  /\ new.ClientStatus = AllocClientStatusPending
                  /\ old.EvalID = "eval-1"
                  /\ old.Job # job
                  /\ old.Metrics = "metrics-1"
                  /\ old.ClientStatus = "running"

\* An allocation was updated in place: the plan holds the new record and the
\* existing one still has its evaluation, resources and client status.
C16_Witness ==
    /\ inplace.called
    /\ Len(plan.NodeAllocation) > 0
    /\ plan.NodeAllocation[1].EvalID = EvalID
    /\ allocs[plan.NodeAllocation[1].ID].EvalID = "eval-1"
    /\ allocs[plan.NodeAllocation[1].ID].Resources = [CPU |-> 100]
    /\ allocs[plan.NodeAllocation[1].ID].ClientStatus = "running"

\* The goroutines that were ever started to run cf.loop.
Started == {l \in LoopIds : loop[l].pc # "none"}

\* C12: whatever calls of Start were made, by one thread or several at once,
\* before or after the cancellation and the exit of the loop, at most one
\* goroutine was ever started to run the loop, and none when cgroups v2 is
\* not in use.
C12_StartOnce ==
    /\ Cardinality(Started) <= 1
    /\ ~useV2 => Started = {}

\* Both threads have called Start, one of them again after the context was
\* cancelled and the loop had exited; the one loop is all there ever was.
C12_Witness ==
    /\ \A t \in Starters : starter[t] = "returned"
    /\ cancelled
    /\ lateStart
    /\ Cardinality(Started) = 1

LoopsReturned == \A l \in LoopIds : loop[l].pc \in {"none", "exited"}

\* C13: once the context is cancelled the loop returns eventually; a loop
\* that has returned stays so and from then on no scan state and no
\* cpuset.cpus file changes; a loop returns only after the cancellation, and
\* as long as there is none a timer tick is followed by a scan.
C13_CancellationObserved ==
    /\ cancelled ~> LoopsReturned
    /\ [][\A l \in LoopIds :
              loop[l].pc = "exited" => loop'[l] = loop[l] /\ cgroup' = cgroup]_vars
    /\ [](\A l \in LoopIds : loop[l].pc = "exited" => cancelled)
    /\ \A l \in LoopIds :
          (loop[l].pc = "select" /\ loop[l].timer = "fired")
              ~> (loop[l].pc = "rlock" \/ cancelled)

\* The loop scanned and copied, the context was cancelled, and the loop has
\* returned.
C13_Witness ==
    /\ cancelled
    /\ \E l \in LoopIds :
          /\ loop[l].pc = "exited"
          /\ loop[l].attempted # {}
          /\ loop[l].prevFailed # {}

\* The names of the count expansion of job j, each with its task group.
CountInstances(j) ==
    UNION {{<<j.Name \o "." \o j.TaskGroups[k].Name \o "[" \o ToString(i) \o "]",
              j.TaskGroups[k]>> : i \in 0 .. j.TaskGroups[k].Count - 1} :
           k \in DOMAIN j.TaskGroups}

\* The names of the node expansion of job j over the nodes ns, each with its
\* task group.
NodeInstances(j, ns) ==
    UNION {{<<j.Name \o "." \o j.TaskGroups[k].Name \o "[" \o ns[n].ID \o "]",
              j.TaskGroups[k]>> : n \in DOMAIN ns} :
           k \in DOMAIN j.TaskGroups}

\* The map out as a set of pairs.
Entries(out) == {<<name, out[name]>> : name \in DOMAIN out}

\* C14: materializeTaskGroups returns the names job.taskgroup[i] for every
\* task group and every i from 0 below its count, each mapped to that task
\* group, and nothing else (nothing for a count of zero or less);
\* materializeSystemTaskGroups returns the names job.taskgroup[nodeID] for
\* every task group and every node handed in, each mapped to that task
\* group, and nothing else.
C14_Materialize ==
    /\ mat.count.called =>
          Entries(mat.count.out) = CountInstances(matJob)
    /\ mat.system.called =>
          Entries(mat.system.out) = NodeInstances(matJob, matNodes)

\* Job web with api (count 2) and db (count 0) on the nodes n1 and n2: two
\* instances of api by count and none of db, and one of each per node.
C14_Witness ==
    /\ mat.count.called /\ mat.system.called
    /\ matJob.TaskGroups = <<TaskGroup("api", 2), TaskGroup("db", 0)>>
    /\ DOMAIN mat.count.out = {"web.api[0]", "web.api[1]"}
    /\ mat.count.out["web.api[1]"] = TaskGroup("api", 2)
    /\ DOMAIN mat.system.out
          = {"web.api[n1]", "web.api[n2]", "web.db[n1]", "web.db[n2]"}
    /\ mat.system.out["web.db[n2]"] = TaskGroup("db", 0)

\* The scan of goroutine l is over: scan has returned.
Scanned(l) == loop[l].pc \in {"select", "exited"}

\* C17: a copy that fails does not end the scan or the loop: during a scan
\* the coordinates attempted and those still to come are the snapshot taken
\* at its start, when it is over every coordinate of the snapshot was
\* attempted, failures or not, the ones that failed in the scan before
\* included if they are in the snapshot still; and the loop returns for the
\* cancellation only.
C17_CopyFailureNotFatal ==
    \A l \in LoopIds :
        /\ loop[l].pc = "fix" =>
              loop[l].attempted \cup loop[l].pending = loop[l].snapshot
        /\ Scanned(l) =>
              /\ loop[l].pending = {}
              /\ loop[l].attempted = loop[l].snapshot
              /\ (loop[l].prevFailed \cap loop[l].snapshot) \subseteq loop[l].attempted
        /\ loop[l].failed \subseteq loop[l].attempted
        /\ loop[l].pc = "exited" => cancelled

\* A scan in which one copy failed and the other coordinate was attempted
\* all the same, after a scan in which the copy of the first had failed
\* too; the loop is at its select again, not cancelled.
C17_Witness ==
    \E l \in LoopIds :
        /\ loop[l].pc = "select"
        /\ ~cancelled
        /\ loop[l].snapshot = Coordinates
        /\ loop[l].attempted = Coordinates
        /\ Cardinality(loop[l].failed) = 1
        /\ loop[l].failed \subseteq loop[l].prevFailed

\* The scans in progress: between the tick and the return of scan.
Scanning == {l \in LoopIds : loop[l].pc \in {"rlock", "snapshot", "fix"}}

\* C18: the fixer holds the read lock only while trackedTasks copies the
\* store; while it copies cpusets it does not hold it, and a writer can take
\* the lock unless another writer has it; at most one scan is in progress.
C18_LockOnlyForSnapshot ==
    /\ \A l \in LoopIds :
          /\ l \in lock.readers => loop[l].pc = "snapshot"
          /\ loop[l].pc = "fix" => l \notin lock.readers
    /\ (\E l \in LoopIds : loop[l].pc = "fix") /\ ~lock.writer => ENABLED WriterLock
    /\ Cardinality(Scanning) <= 1

\* A writer holds the lock while the fixer is in the middle of its copies,
\* and the store is no longer what the snapshot was.
C18_Witness ==
    \E l \in LoopIds :
        /\ loop[l].pc = "fix"
        /\ loop[l].pending # {}
        /\ loop[l].attempted # {}
        /\ lock.writer
        /\ tracked # loop[l].snapshot

====
